---- MODULE Spec2Model ----
(***************************************************************************)
(* Falcon three-party protocol of SyMPC (sympc/protocol/falcon/falcon.py). *)
(*                                                                         *)
(* Tensors are modelled by their elements: a multiplication operand is a   *)
(* one-element tensor, op_str is "mul".  A replicated sharing has three    *)
(* components c0, c1, c2 (sum mod ring = the secret); party i holds the    *)
(* pair <<c_i, c_(i+1)>>, its shares[0] and shares[1].                     *)
(***************************************************************************)
EXTENDS Integers, Sequences, FiniteSets, TLC

(***************************************************************************)
(* Bounds of the model.                                                    *)
(***************************************************************************)
\* the session ring is Z_(2^RingBits); the program runs it at 32 or 64 bits
RingBits == 2
\* a malicious party adds a value of 0..MaxErr to what it sends
MaxErr == 1
\* triples in the store when a call starts: 0..MaxStore
MaxStore == 2
\* seeds of the session's generators: 0..MaxSeed
MaxSeed == 1
\* rounds of the sampling loop of _random_prime_group that draw a zero
MaxSamples == 2
\* elements of a tensor given to select_shares
MaxLen == 2
\* log2 of the number of bits of the ring of the sessions of bounding_pow
BitExp == 2

RING_SIZE == 2 ^ RingBits
Ring == 0 .. (RING_SIZE - 1)
Parties == 0 .. 2
ErrVals == 0 .. MaxErr
Seeds == 0 .. MaxSeed

(***************************************************************************)
(* Ring arithmetic of the share class: get_op(ring_size, op_str) and       *)
(* shares_sum.                                                             *)
(***************************************************************************)
op_add(a, b) == (a + b) % RING_SIZE
op_sub(a, b) == (a - b) % RING_SIZE
op_mul(a, b) == (a * b) % RING_SIZE

RECURSIVE SeqSum(_)
SeqSum(s) == IF s = << >> THEN 0 ELSE Head(s) + SeqSum(Tail(s))

shares_sum(shares, ring_size) == SeqSum(shares) % ring_size

\* the pair of components party i holds of a replicated sharing
distribute_shares(comps) ==
    [i \in Parties |-> <<comps[i], comps[(i + 1) % 3]>>]

\* reconstruct of a replicated sharing: both shares of party 0 and the
\* second share of party 1
reconstruct(sh) == shares_sum(<<sh[0][1], sh[0][2], sh[1][2]>>, RING_SIZE)

\* reconstruct of a 3-out-of-3 sharing (one value per party)
reconstruct3(z) == shares_sum(<<z[0], z[1], z[2]>>, RING_SIZE)

\* share-wise arithmetic of two replicated shares held by one party
rst_add(p, q) == <<op_add(p[1], q[1]), op_add(p[2], q[2])>>
rst_sub(p, q) == <<op_sub(p[1], q[1]), op_sub(p[2], q[2])>>

(***************************************************************************)
(* Randomness.  Every party draws from generators seeded at session setup, *)
(* so a run's random values are a function of the seed and of how many     *)
(* values were drawn before.                                               *)
(***************************************************************************)
Gen(seed, k) == (seed * (k + 1) + (k * k) + k \div 2) % RING_SIZE

\* a fresh replicated sharing of v, its first two components drawn at k, k+1
Sharing(v, seed, k) ==
    LET s0 == Gen(seed, k)
        s1 == Gen(seed, k + 1)
    IN  (0 :> s0) @@ (1 :> s1) @@ (2 :> ((v - s0 - s1) % RING_SIZE))

\* przs_generate_random_share: party i holds gen_i - gen_(i+1), so the three
\* masks sum to zero
przs_generate_random_share(seed, i) ==
    op_sub(Gen(seed, 10 + i), Gen(seed, 10 + ((i + 1) % 3)))

(***************************************************************************)
(* State.                                                                  *)
(***************************************************************************)
VARIABLES
    \* Session
    nr_parties,      \* len(session.parties)
    security_type,   \* session.protocol.security_type
    config,          \* session config: [base, precision]
    seed,            \* seed of the session's random generators
    store,           \* session.crypto_store: the beaver_mul triples, in order
    zerr, cerr,      \* what a deviating party adds to its z share / to c
    \* one call of mul_master
    x_sh, y_sh,      \* components of the operands' replicated sharings
    pc,              \* position of the call
    result,          \* the local variable result of mul_master / mul_malicious
    eps, delta,      \* eps_plaintext, delta_plaintext
    mask_tr,         \* the triple falcon_mask read (ghost)
    residual,        \* triple: the shares triple_verification returns
    ret,             \* what the caller of mul_master receives
    exc,             \* the exception the call raised
    n_product, n_generate, n_mask, n_verify, n_truncate,  \* step counters (ghost)
    opened,          \* labels of the values gathered in the clear (ghost)
    \* one call of private_compare, wrap or drelu: its inputs, the random
    \* values it draws and its result
    nl,
    \* one call of select_shares
    sel,
    \* one call of division
    div,
    \* the session's earlier multiplications: how many ended, the triples
    \* they generated and took, and the store the session started with (ghost)
    hist,
    \* a second multiplication in flight on the same session, suspended
    \* between two of its steps
    co

mulvars == <<nr_parties, security_type, config, seed, store, zerr, cerr,
             x_sh, y_sh, pc, result, eps, delta, mask_tr, residual, ret, exc,
             n_product, n_generate, n_mask, n_verify, n_truncate, opened>>

vars == <<mulvars, nl, sel, div, hist, co>>

\* Python's None, for each kind of value
None == "None"
NoTensor == [kind |-> "None", sh |-> << >>]
NoShares == << >>
NoValue == 0 - 1
NoTriple == [a |-> << >>, b |-> << >>, c |-> << >>]
security_levels == {"semi-honest", "malicious"}

\* the locals of a multiplication that is not running
NoCall ==
    [x_sh |-> NoShares, y_sh |-> NoShares, pc |-> "idle", result |-> NoTensor,
     eps |-> NoValue, delta |-> NoValue, mask_tr |-> NoTriple,
     residual |-> NoShares, ret |-> NoTensor, exc |-> None,
     n_product |-> 0, n_generate |-> 0, n_mask |-> 0, n_verify |-> 0,
     n_truncate |-> 0, opened |-> {}]

\* a session on which no multiplication has ended and no other one runs
NewSession ==
    /\ hist = [n_calls |-> 0, n_malicious |-> 0, n_generated |-> 0,
               n_start |-> Len(store)]
    /\ co = NoCall

(***************************************************************************)
(* Beaver triples of the store.                                            *)
(***************************************************************************)
\* a triple (a, b, c = a*b) as the three parties hold it; a deviating dealer
\* adds e to the first component of c
Triple(a, b, sd, k, e) ==
    LET c == Sharing(op_mul(a, b), sd, k + 4)
    IN  [a |-> distribute_shares(Sharing(a, sd, k)),
         b |-> distribute_shares(Sharing(b, sd, k + 2)),
         c |-> distribute_shares([c EXCEPT ![0] = op_add(c[0], e)])]

\* the k-th triple CryptoPrimitiveProvider.generate_primitives makes
GeneratedTriple(sd, k, e) ==
    Triple(Gen(sd, 40 + k), Gen(sd, 50 + k), sd, 20 + 6 * k, e)

\* the stores a call can start from: empty, one triple of any pair (a, b),
\* or up to MaxStore generated triples
InitialStores(sd, e) ==
    {<< >>} \cup
    {<<Triple(a, b, sd, 20, e)>> : a \in Ring, b \in Ring} \cup
    {[k \in 1 .. n |-> GeneratedTriple(sd, 10 + k, e)] : n \in 2 .. MaxStore}

(***************************************************************************)
(* Falcon.multiplication_protocol, compute_zvalue_and_add_mask,            *)
(* mul_semi_honest.                                                        *)
(***************************************************************************)
\* mutant: the third cross term takes the wrong share of x
multiplication_protocol_WrongIndex(x, y) ==
    shares_sum(<<op_mul(x[1], y[1]), op_mul(x[2], y[1]), op_mul(x[2], y[2])>>,
               RING_SIZE)

\* x, y: the pair of shares one party holds
multiplication_protocol(x, y) ==
    shares_sum(<<op_mul(x[1], y[1]), op_mul(x[2], y[1]), op_mul(x[1], y[2])>>,
               RING_SIZE)

compute_zvalue_and_add_mask(x, y, przs_mask) ==
    LET z_value == multiplication_protocol(x, y)
    IN  op_add(z_value, przs_mask)

\* the z share each party returns; party 0 deviates by e
z_shares_ptrs(xs, ys, sd, e) ==
    [i \in Parties |->
        LET share == compute_zvalue_and_add_mask(
                         distribute_shares(xs)[i], distribute_shares(ys)[i],
                         przs_generate_random_share(sd, i))
        IN  IF i = 0 THEN op_add(share, e) ELSE share]

\* result of mul_semi_honest: 3-out-of-3 shares, or with reshare the same
\* three values distributed as a replicated sharing
mul_semi_honest(xs, ys, sd, e, reshare) ==
    LET z == z_shares_ptrs(xs, ys, sd, e)
    IN  IF reshare THEN [kind |-> "rss", sh |-> distribute_shares(z)]
                   ELSE [kind |-> "3of3", sh |-> z]

\* the plaintext an MPCTensor reconstructs to
Plain(t) == IF t.kind = "rss" THEN reconstruct(t.sh) ELSE reconstruct3(t.sh)

(***************************************************************************)
(* Falcon.falcon_mask and Falcon.triple_verification, at one party.        *)
(***************************************************************************)
\* x_sh - a_sh, y_sh - b_sh with the first triple of the store (remove=False)
falcon_mask(x, y, tr, i) ==
    <<rst_sub(x, tr.a[i]), rst_sub(y, tr.b[i])>>

\* mutant: the eps*delta term is added by rank 1 instead of rank 2
triple_verification_WrongRank(z, e, d, tr, rank) ==
    LET eps_delta == op_mul(e, d)
        eps_b     == <<op_mul(e, tr.b[rank][1]), op_mul(e, tr.b[rank][2])>>
        delta_a   == <<op_mul(tr.a[rank][1], d), op_mul(tr.a[rank][2], d)>>
        rst0      == rst_add(rst_add(tr.c[rank], delta_a), eps_b)
        rst1      == IF rank = 0
                     THEN <<shares_sum(<<rst0[1], eps_delta>>, RING_SIZE), rst0[2]>>
                     ELSE rst0
        rst_share == IF rank = 1
                     THEN <<rst1[1], shares_sum(<<rst1[2], eps_delta>>, RING_SIZE)>>
                     ELSE rst1
    IN  rst_sub(z, rst_share)

\* mutant: no rank adds the eps*delta term
triple_verification_NoCrossTerm(z, e, d, tr, rank) ==
    LET eps_b     == <<op_mul(e, tr.b[rank][1]), op_mul(e, tr.b[rank][2])>>
        delta_a   == <<op_mul(tr.a[rank][1], d), op_mul(tr.a[rank][2], d)>>
        rst_share == rst_add(rst_add(tr.c[rank], delta_a), eps_b)
    IN  rst_sub(z, rst_share)

\* mutant: every rank adds the eps*delta term to its first share
triple_verification_EveryRank(z, e, d, tr, rank) ==
    LET eps_delta == op_mul(e, d)
        eps_b     == <<op_mul(e, tr.b[rank][1]), op_mul(e, tr.b[rank][2])>>
        delta_a   == <<op_mul(tr.a[rank][1], d), op_mul(tr.a[rank][2], d)>>
        rst0      == rst_add(rst_add(tr.c[rank], delta_a), eps_b)
        rst_share == <<shares_sum(<<rst0[1], eps_delta>>, RING_SIZE), rst0[2]>>
    IN  rst_sub(z, rst_share)

\* z_sh: the party's pair of the product; tr: the triple taken from the store
triple_verification(z, e, d, tr, rank) ==
    LET eps_delta == op_mul(e, d)
        eps_b     == <<op_mul(e, tr.b[rank][1]), op_mul(e, tr.b[rank][2])>>
        delta_a   == <<op_mul(tr.a[rank][1], d), op_mul(tr.a[rank][2], d)>>
        rst0      == rst_add(rst_add(tr.c[rank], delta_a), eps_b)
        rst1      == IF rank = 0
                     THEN <<shares_sum(<<rst0[1], eps_delta>>, RING_SIZE), rst0[2]>>
                     ELSE rst0
        rst_share == IF rank = 2
                     THEN <<rst1[1], shares_sum(<<rst1[2], eps_delta>>, RING_SIZE)>>
                     ELSE rst1
    IN  rst_sub(z, rst_share)

(***************************************************************************)
(* ABY3.truncate: the value shifted right by the precision (signed), in a  *)
(* fresh replicated sharing.                                               *)
(***************************************************************************)
Signed(v) == IF v >= RING_SIZE \div 2 THEN v - RING_SIZE ELSE v

truncate(t, cfg, sd) ==
    LET v == Signed(Plain(t)) \div (cfg.base ^ cfg.precision)
    IN  [kind |-> "rss",
         sh |-> distribute_shares(Sharing(v % RING_SIZE, sd, 60))]

(***************************************************************************)
(* Falcon.mul_master and Falcon.mul_malicious, step by step.               *)
(*   pc: "call" -> ("mask" -> ["generate" -> "retry" ->] "verify" ->)      *)
(*       "truncate" -> "returned",  or "raised" from any step that raises. *)
(***************************************************************************)
Raise(e) ==
    /\ pc' = "raised"
    /\ exc' = e
    /\ ret' = NoTensor

\* lines 61-65: Falcon(security_type) rejects a type that is not a level;
\* else the protocol is set up and multiply can be called on its session
FalconInit ==
    /\ pc = "construct"
    /\ IF security_type \notin security_levels
       THEN Raise("ValueError")
       ELSE pc' = "call" /\ UNCHANGED <<ret, exc>>
    /\ UNCHANGED <<nr_parties, security_type, config, seed, store, zerr, cerr,
                   x_sh, y_sh, result, eps, delta, mask_tr, residual,
                   n_product, n_generate, n_mask, n_verify, n_truncate, opened>>
    /\ UNCHANGED <<nl, sel, div, hist, co>>

\* mutant: the checks of mul_master come after the product
MulMasterRaise_Late ==
    /\ pc = "call"
    /\ \/ nr_parties # 3
       \/ nr_parties = 3 /\ security_type \notin security_levels
    /\ Raise("ValueError")
    /\ result' = mul_semi_honest(x_sh, y_sh, seed, zerr, FALSE)
    /\ n_product' = n_product + 1
    /\ UNCHANGED <<nr_parties, security_type, config, seed, store, zerr, cerr,
                   x_sh, y_sh, eps, delta, mask_tr, residual,
                   n_generate, n_mask, n_verify, n_truncate, opened>>
    /\ UNCHANGED <<nl, sel, div, hist, co>>

\* lines 121-122 and 138-139: the ValueErrors of mul_master; between them
\* lines 126-128 read the ring size and the config of x, no share value
MulMasterRaise ==
    /\ pc = "call"
    /\ \/ nr_parties # 3
       \/ nr_parties = 3 /\ security_type \notin security_levels
    /\ Raise("ValueError")
    /\ UNCHANGED <<nr_parties, security_type, config, seed, store, zerr, cerr,
                   x_sh, y_sh, result, eps, delta, mask_tr, residual,
                   n_product, n_generate, n_mask, n_verify, n_truncate, opened>>
    /\ UNCHANGED <<nl, sel, div, hist, co>>

\* mutant: the semi-honest product goes to the caller as it is
MulSemiHonest_NoTruncate ==
    /\ pc = "call"
    /\ nr_parties = 3
    /\ security_type = "semi-honest"
    /\ result' = mul_semi_honest(x_sh, y_sh, seed, zerr, FALSE)
    /\ ret' = result'
    /\ n_product' = n_product + 1
    /\ pc' = "returned"
    /\ UNCHANGED <<nr_parties, security_type, config, seed, store, zerr, cerr,
                   x_sh, y_sh, eps, delta, mask_tr, residual, exc,
                   n_generate, n_mask, n_verify, n_truncate, opened>>
    /\ UNCHANGED <<nl, sel, div, hist, co>>

\* lines 130-133: the semi-honest product, not reshared
MulSemiHonest ==
    /\ pc = "call"
    /\ nr_parties = 3
    /\ security_type = "semi-honest"
    /\ result' = mul_semi_honest(x_sh, y_sh, seed, zerr, FALSE)
    /\ n_product' = n_product + 1
    /\ pc' = "truncate"
    /\ UNCHANGED <<nr_parties, security_type, config, seed, store, zerr, cerr,
                   x_sh, y_sh, eps, delta, mask_tr, residual, ret, exc,
                   n_generate, n_mask, n_verify, n_truncate, opened>>
    /\ UNCHANGED <<nl, sel, div, hist, co>>

\* lines 134-137, 321-323: mul_malicious starts with the reshared product;
\* resharing gathers the three z shares (line 185)
MulMaliciousProduct ==
    /\ pc = "call"
    /\ nr_parties = 3
    /\ security_type = "malicious"
    /\ result' = mul_semi_honest(x_sh, y_sh, seed, zerr, TRUE)
    /\ n_product' = n_product + 1
    /\ opened' = opened \cup {"z_shares"}
    /\ pc' = "mask"
    /\ UNCHANGED <<nr_parties, security_type, config, seed, store, zerr, cerr,
                   x_sh, y_sh, eps, delta, mask_tr, residual, ret, exc,
                   n_generate, n_mask, n_verify, n_truncate>>
    /\ UNCHANGED <<nl, sel, div, hist, co>>

\* lines 346-350: the masks of the three parties, reconstructed
Masked ==
    LET tr   == Head(store)
        mask == [i \in Parties |->
                    falcon_mask(distribute_shares(x_sh)[i],
                                distribute_shares(y_sh)[i], tr, i)]
    IN  /\ eps' = reconstruct([i \in Parties |-> mask[i][1]])
        /\ delta' = reconstruct([i \in Parties |-> mask[i][2]])
        /\ mask_tr' = tr
        /\ opened' = opened \cup {"eps", "delta"}
        /\ pc' = "verify"

\* mutant: the masking takes its triple out of the store (remove=True)
FalconMask_Remove ==
    /\ pc = "mask"
    /\ n_mask' = n_mask + 1
    /\ IF store = << >>
       THEN /\ pc' = "generate"
            /\ UNCHANGED <<eps, delta, mask_tr, opened, store>>
       ELSE /\ Masked
            /\ store' = Tail(store)
    /\ UNCHANGED <<nr_parties, security_type, config, seed, zerr, cerr,
                   x_sh, y_sh, result, residual, ret, exc,
                   n_product, n_generate, n_verify, n_truncate>>
    /\ UNCHANGED <<nl, sel, div, hist, co>>

\* lines 326-328: the first masking; an empty store raises
\* EmptyPrimitiveStore, which is caught
FalconMask ==
    /\ pc = "mask"
    /\ n_mask' = n_mask + 1
    /\ IF store = << >>
       THEN /\ pc' = "generate"
            /\ UNCHANGED <<eps, delta, mask_tr, opened>>
       ELSE Masked
    /\ UNCHANGED <<nr_parties, security_type, config, seed, store, zerr, cerr,
                   x_sh, y_sh, result, residual, ret, exc,
                   n_product, n_generate, n_verify, n_truncate>>
    /\ UNCHANGED <<nl, sel, div, hist, co>>

\* lines 329-342: the missing batch is generated
GeneratePrimitives ==
    /\ pc = "generate"
    /\ store' = Append(store,
                       GeneratedTriple(seed, hist.n_generated + co.n_generate
                                                 + n_generate, cerr))
    /\ n_generate' = n_generate + 1
    /\ pc' = "retry"
    /\ UNCHANGED <<nr_parties, security_type, config, seed, zerr, cerr,
                   x_sh, y_sh, result, eps, delta, mask_tr, residual, ret, exc,
                   n_product, n_mask, n_verify, n_truncate, opened>>
    /\ UNCHANGED <<nl, sel, div, hist, co>>

\* mutant: a shortage at the second masking generates again
FalconMaskRetry_Loop ==
    /\ pc = "retry"
    /\ n_mask' = n_mask + 1
    /\ IF store = << >>
       THEN /\ pc' = "generate"
            /\ UNCHANGED <<eps, delta, mask_tr, opened, ret, exc>>
       ELSE /\ Masked
            /\ UNCHANGED <<ret, exc>>
    /\ UNCHANGED <<nr_parties, security_type, config, seed, store, zerr, cerr,
                   x_sh, y_sh, result, residual,
                   n_product, n_generate, n_verify, n_truncate>>
    /\ UNCHANGED <<nl, sel, div, hist, co>>

\* mutant: a shortage at the second masking passes the unverified product on
FalconMaskRetry_Downgrade ==
    /\ pc = "retry"
    /\ n_mask' = n_mask + 1
    /\ IF store = << >>
       THEN /\ pc' = "truncate"
            /\ UNCHANGED <<eps, delta, mask_tr, opened, ret, exc>>
       ELSE /\ Masked
            /\ UNCHANGED <<ret, exc>>
    /\ UNCHANGED <<nr_parties, security_type, config, seed, store, zerr, cerr,
                   x_sh, y_sh, result, residual,
                   n_product, n_generate, n_verify, n_truncate>>
    /\ UNCHANGED <<nl, sel, div, hist, co>>

\* line 343: the masking again, outside the try: a shortage now propagates
FalconMaskRetry ==
    /\ pc = "retry"
    /\ n_mask' = n_mask + 1
    /\ IF store = << >>
       THEN /\ Raise("EmptyPrimitiveStore")
            /\ UNCHANGED <<eps, delta, mask_tr, opened>>
       ELSE /\ Masked
            /\ UNCHANGED <<ret, exc>>
    /\ UNCHANGED <<nr_parties, security_type, config, seed, store, zerr, cerr,
                   x_sh, y_sh, result, residual,
                   n_product, n_generate, n_verify, n_truncate>>
    /\ UNCHANGED <<nl, sel, div, hist, co>>

\* mutant: the residual is opened and not looked at
VerificationPasses_Unchecked(res) == reconstruct(res) \in Ring

\* line 363: the opened residual is zero in every element
VerificationPasses(res) == reconstruct(res) = 0

\* lines 352-366: every party takes the first triple out of its store and
\* computes its residual shares; the residual is opened
TripleVerification ==
    /\ pc = "verify"
    /\ n_verify' = n_verify + 1
    /\ IF store = << >>
       THEN /\ Raise("EmptyPrimitiveStore")
            /\ UNCHANGED <<store, residual, opened>>
       ELSE LET tr  == Head(store)
                res == [i \in Parties |->
                           triple_verification(result.sh[i], eps, delta, tr, i)]
            IN  /\ store' = Tail(store)
                /\ residual' = res
                /\ opened' = opened \cup {"residual"}
                /\ IF VerificationPasses(res)
                   THEN /\ pc' = "truncate"
                        /\ UNCHANGED <<ret, exc>>
                   ELSE Raise("ValueError: Computation Aborted")
    /\ UNCHANGED <<nr_parties, security_type, config, seed, zerr, cerr,
                   x_sh, y_sh, result, eps, delta, mask_tr,
                   n_product, n_generate, n_mask, n_truncate>>
    /\ UNCHANGED <<nl, sel, div, hist, co>>

\* lines 141-143: truncation, then the result goes to the caller
Truncate ==
    /\ pc = "truncate"
    /\ result' = truncate(result, config, seed)
    /\ ret' = result'
    /\ n_truncate' = n_truncate + 1
    /\ pc' = "returned"
    /\ UNCHANGED <<nr_parties, security_type, config, seed, store, zerr, cerr,
                   x_sh, y_sh, eps, delta, mask_tr, residual, exc,
                   n_product, n_generate, n_mask, n_verify, opened>>
    /\ UNCHANGED <<nl, sel, div, hist, co>>

\* another call on the same session reaches its triple_verification and
\* takes the first triple out of the shared store (lines 223-225)
ConcurrentVerification ==
    /\ pc \in {"mask", "generate", "retry", "verify"}
    /\ store # << >>
    /\ store' = Tail(store)
    /\ UNCHANGED <<nr_parties, security_type, config, seed, zerr, cerr,
                   x_sh, y_sh, pc, result, eps, delta, mask_tr, residual, ret,
                   exc, n_product, n_generate, n_mask, n_verify, n_truncate,
                   opened>>
    /\ UNCHANGED <<nl, sel, div, hist, co>>

(***************************************************************************)
(* Several multiplications on one session.  The store belongs to the       *)
(* session (lines 219, 281): a later call finds it as the call before left *)
(* it, and two calls in flight read and take from the same one.            *)
(***************************************************************************)
\* multiplications of one sequential run
MaxCalls == 2

\* operands of the later calls of a run
LaterOperands == {1, RING_SIZE - 1}

\* the locals of the running call
Locals ==
    [x_sh |-> x_sh, y_sh |-> y_sh, pc |-> pc, result |-> result,
     eps |-> eps, delta |-> delta, mask_tr |-> mask_tr,
     residual |-> residual, ret |-> ret, exc |-> exc,
     n_product |-> n_product, n_generate |-> n_generate, n_mask |-> n_mask,
     n_verify |-> n_verify, n_truncate |-> n_truncate, opened |-> opened]

\* the locals of a call become those of the record c
Resume(c) ==
    /\ x_sh' = c.x_sh
    /\ y_sh' = c.y_sh
    /\ pc' = c.pc
    /\ result' = c.result
    /\ eps' = c.eps
    /\ delta' = c.delta
    /\ mask_tr' = c.mask_tr
    /\ residual' = c.residual
    /\ ret' = c.ret
    /\ exc' = c.exc
    /\ n_product' = c.n_product
    /\ n_generate' = c.n_generate
    /\ n_mask' = c.n_mask
    /\ n_verify' = c.n_verify
    /\ n_truncate' = c.n_truncate
    /\ opened' = c.opened

\* the locals of a call of multiply(x, y, "mul") at its first line
NewCall(x, y) ==
    [NoCall EXCEPT !.x_sh = Sharing(x, seed, 0), !.y_sh = Sharing(y, seed, 2),
                   !.pc = "call"]

\* lines 98-124: the call before has returned or raised, and the caller
\* multiplies again on the same session
NextCall ==
    /\ pc \in {"returned", "raised"}
    /\ hist.n_calls + 1 < MaxCalls
    /\ hist' = [hist EXCEPT
                   !.n_calls = @ + 1,
                   !.n_malicious =
                       @ + (IF security_type = "malicious" THEN 1 ELSE 0),
                   !.n_generated = @ + n_generate]
    /\ \E x \in LaterOperands, y \in LaterOperands : Resume(NewCall(x, y))
    /\ UNCHANGED <<nr_parties, security_type, config, seed, store, zerr, cerr>>
    /\ UNCHANGED <<nl, sel, div, co>>

\* two calls of mul_malicious in flight (lines 325-359): the running one
\* stops between two of its steps and the other one goes on
Switch ==
    /\ co.pc # "idle"
    /\ co' = Locals
    /\ Resume(co)
    /\ UNCHANGED <<nr_parties, security_type, config, seed, store, zerr, cerr>>
    /\ UNCHANGED <<nl, sel, div, hist>>

(***************************************************************************)
(* The prime field Z_p of private_compare, and bits.                       *)
(***************************************************************************)
PRIME_NUMBER == 67
Field == 0 .. (PRIME_NUMBER - 1)

Bit(v, i) == (v \div (2 ^ i)) % 2
Xor(a, b) == (a + b) % 2

\* ABY3.bit_decomposition_ttp: bit i of the value, as a share of its own
bit_decomposition(v, k) == [i \in 0 .. (k - 1) |-> Bit(v, i)]

\* ABY3.bit_injection: the same bit as a value of another ring
bit_injection(bit, ring_size) == bit % ring_size

\* x ^ y on shares of a prime ring: x + y - 2xy
xor_p(x, y) == (x + y - 2 * x * y) % PRIME_NUMBER

\* b ** e in Z_p, by squaring
RECURSIVE PowMod(_, _)
PowMod(b, e) ==
    IF e = 0 THEN 1
    ELSE LET h == PowMod(b, e \div 2)
         IN  IF e % 2 = 0 THEN (h * h) % PRIME_NUMBER
                          ELSE (h * h * b) % PRIME_NUMBER

(***************************************************************************)
(* Falcon.private_compare.  x: the bits of x, each a secret of Z_p; r: a   *)
(* public integer; beta_2: the random bit; m: the value of Zp* drawn by    *)
(* _random_prime_group.                                                    *)
(***************************************************************************)
\* line 559
pc_u(x, r, beta_p, i) ==
    ((1 - 2 * beta_p) * (x[i] - Bit(r, i))) % PRIME_NUMBER

\* line 560
pc_w(x, r, i) == xor_p(x[i], Bit(r, i))

\* mutant: the loop runs from the bottom bit up, so that sum(w[i + 1 :])
\* adds the zeros w was filled with at line 555
pc_sum_w_Unset(x, r, i, k) == 0

\* sum(w[i + 1 :]) of line 561: the loop runs from the top bit down, so every
\* w[j], j > i, is set when c[i] is computed
RECURSIVE pc_sum_w(_, _, _, _)
pc_sum_w(x, r, i, k) ==
    IF i + 1 >= k THEN 0
    ELSE (pc_w(x, r, i + 1) + pc_sum_w(x, r, i + 1, k)) % PRIME_NUMBER

\* line 561
pc_c(x, r, beta_p, i, k) ==
    (pc_u(x, r, beta_p, i) + 1 + pc_sum_w(x, r, i, k)) % PRIME_NUMBER

\* math.prod(c) of line 563
RECURSIVE pc_prod(_, _, _, _, _)
pc_prod(x, r, beta_p, i, k) ==
    IF i >= k THEN 1
    ELSE (pc_c(x, r, beta_p, i, k) * pc_prod(x, r, beta_p, i + 1, k))
             % PRIME_NUMBER

\* lines 563-566: the opened d
pc_d(x, r, k, beta_2, m) ==
    LET beta_p == bit_injection(beta_2, PRIME_NUMBER)
    IN  (m * pc_prod(x, r, beta_p, 0, k)) % PRIME_NUMBER

\* lines 565-570: what the returned share reconstructs to
private_compare(x, r, k, beta_2, m) ==
    LET d_val      == pc_d(x, r, k, beta_2, m)
        beta_prime == IF d_val # 0 THEN 1 ELSE 0
    IN  Xor(beta_2, beta_prime)

(***************************************************************************)
(* Falcon.wrap2, wrap3, wrap_preprocess, wrap, drelu.                      *)
(***************************************************************************)
\* n: the number of bits of the session ring (the dtype of the shares)
\* a > max_val - b on unsigned values, as a bit
wrap2(a, b, n) == IF a > (2 ^ n - 1) - b THEN 1 ELSE 0

\* mutant: the two carries are joined by OR
wrap3_Or(a, b, c, n) ==
    IF wrap2(a, b, n) = 1 \/ wrap2((a + b) % (2 ^ n), c, n) = 1 THEN 1 ELSE 0

\* a + b is a sum of unsigned arrays of n bits: it wraps around
wrap3(a, b, c, n) == Xor(wrap2(a, b, n), wrap2((a + b) % (2 ^ n), c, n))

\* what a boolean (ring 2) sharing reconstructs to
reconstruct_bool(comps) == (comps[0] + comps[1] + comps[2]) % 2

\* x: components of the random sharing drawn; r1, r2: the random bits that
\* blind x_wrap
wrap_preprocess(x, r1, r2, n) ==
    LET x_val  == shares_sum(<<x[0], x[1], x[2]>>, 2 ^ n)
        x_wrap == wrap3(x[0], x[1], x[2], n)
        r3     == Xor(Xor(x_wrap, r1), r2)
    IN  [x_p   |-> [i \in 0 .. (n - 1) |->
                       bit_injection(bit_decomposition(x_val, n)[i],
                                     PRIME_NUMBER)],
         alpha |-> (0 :> r1) @@ (1 :> r2) @@ (2 :> r3)]

\* a: components of the input; what wrap_sh reconstructs to
wrap(a, x, r1, r2, beta_2, m, n) ==
    LET pre      == wrap_preprocess(x, r1, r2, n)
        r        == [i \in Parties |-> (x[i] + a[i]) % (2 ^ n)]
        beta     == [i \in Parties |-> wrap2(a[i], x[i], n)]
        delta_r  == wrap3(r[0], r[1], r[2], n)
        r_public == (r[0] + r[1] + r[2]) % (2 ^ n)
        eta      == private_compare(pre.x_p, (r_public + 1) % (2 ^ n),
                                    n, beta_2, m)
    IN  (reconstruct_bool(beta) + delta_r - eta - reconstruct_bool(pre.alpha)) % 2

\* the values the caller of wrap holds in the clear when it returns: the
\* three components of the random x (lines 663-664: get_copy of the shares
\* of party 0 and party 1), the three components of r = x + a (lines
\* 697-698), and d, opened in private_compare (line 565)
wrap_view(a, x, r1, r2, beta_2, m, n) ==
    LET pre      == wrap_preprocess(x, r1, r2, n)
        r        == [i \in Parties |-> (x[i] + a[i]) % (2 ^ n)]
        r_public == (r[0] + r[1] + r[2]) % (2 ^ n)
    IN  [x |-> <<x[0], x[1], x[2]>>,
         r |-> <<r[0], r[1], r[2]>>,
         d |-> pc_d(pre.x_p, (r_public + 1) % (2 ^ n), n, beta_2, m)]

\* what drelu's result reconstructs to
drelu(a, x, r1, r2, beta_2, m, n) ==
    LET msb_idx     == n - 1
        msb         == [i \in Parties |-> Bit(a[i], msb_idx)]
        wrap_lshift == [i \in Parties |-> (2 * a[i]) % (2 ^ n)]
        wrap_bit    == wrap(wrap_lshift, x, r1, r2, beta_2, m, n)
    IN  Xor(Xor(reconstruct_bool(msb), wrap_bit), 1)

(***************************************************************************)
(* Calls of private_compare, wrap and drelu.  The random values other      *)
(* than m are drawn when the call starts; m is drawn by the loop of        *)
(* _random_prime_group, then the rest of the call is computed.             *)
(***************************************************************************)
\* the samples the loop draws in the calls of wrap and drelu
SmallSamples == {0, 1, 2, PRIME_NUMBER - 1}

\* mutant: the sample is returned without the test of its power
RandomPrimeGroup_NoTest(samples) ==
    /\ nl.pc = "sample"
    /\ \E s \in samples :
          nl' = [nl EXCEPT !.m = s, !.pc = "compute", !.n_samples = @ + 1]
    /\ UNCHANGED <<hist, co, mulvars, sel, div>>

\* lines 504-518: one round of the loop: a sample of Z_p is kept when its
\* (p-1)-th power opens to 1, else another one is drawn
RandomPrimeGroup(samples) ==
    /\ nl.pc = "sample"
    /\ \E s \in samples :
          LET m_euler == PowMod(s, PRIME_NUMBER - 1)
          IN  IF m_euler = 1
              THEN nl' = [nl EXCEPT !.m = s, !.pc = "compute",
                                    !.n_samples = @ + 1]
              ELSE /\ nl.n_samples < MaxSamples
                   /\ nl' = [nl EXCEPT !.n_samples = @ + 1]
    /\ UNCHANGED <<hist, co, mulvars, sel, div>>

PrivateCompare ==
    /\ nl.pc = "compute"
    /\ nl.fn = "private_compare"
    /\ nl' = [nl EXCEPT
                !.out = private_compare(bit_decomposition(nl.x, nl.k), nl.r,
                                        nl.k, nl.beta_2, nl.m),
                !.pc = "returned"]
    /\ UNCHANGED <<hist, co, mulvars, sel, div>>

Wrap ==
    /\ nl.pc = "compute"
    /\ nl.fn = "wrap"
    /\ nl' = [nl EXCEPT
                !.out = wrap(nl.a, nl.x_rand, nl.r1, nl.r2, nl.beta_2, nl.m,
                             RingBits),
                !.view = wrap_view(nl.a, nl.x_rand, nl.r1, nl.r2, nl.beta_2,
                                   nl.m, RingBits),
                !.pc = "returned"]
    /\ UNCHANGED <<hist, co, mulvars, sel, div>>

Drelu ==
    /\ nl.pc = "compute"
    /\ nl.fn = "drelu"
    /\ nl' = [nl EXCEPT
                !.out = drelu(nl.a, nl.x_rand, nl.r1, nl.r2, nl.beta_2, nl.m,
                              RingBits),
                !.pc = "returned"]
    /\ UNCHANGED <<hist, co, mulvars, sel, div>>

NlCall(fn, a, k, x, r, x_rand, r1, r2, beta_2) ==
    [fn |-> fn, pc |-> "sample", a |-> a, k |-> k, x |-> x, r |-> r,
     x_rand |-> x_rand, r1 |-> r1, r2 |-> r2, beta_2 |-> beta_2,
     m |-> 0, n_samples |-> 0, out |-> NoValue, view |-> << >>]

NlIdle == nl = [NlCall("none", << >>, 0, 0, 0, << >>, 0, 0, 0) EXCEPT !.pc = "idle"]

\* lines 589-597: wrap2 on arrays of one element; signed arrays are rejected
Wrap2 ==
    /\ nl.pc = "compute"
    /\ nl.fn = "wrap2"
    /\ IF nl.kind = "i"
       THEN nl' = [nl EXCEPT !.pc = "raised"]
       ELSE nl' = [nl EXCEPT !.out = wrap2(nl.a[0], nl.a[1], nl.k),
                             !.pc = "returned"]
    /\ UNCHANGED <<hist, co, mulvars, sel, div>>

\* lines 617-623: wrap3 on arrays of one element
Wrap3 ==
    /\ nl.pc = "compute"
    /\ nl.fn = "wrap3"
    /\ IF nl.kind = "i"
       THEN nl' = [nl EXCEPT !.pc = "raised"]
       ELSE nl' = [nl EXCEPT !.out = wrap3(nl.a[0], nl.a[1], nl.a[2], nl.k),
                             !.pc = "returned"]
    /\ UNCHANGED <<hist, co, mulvars, sel, div>>

\* wrap2(a, b) / wrap3(a, b, c) for every width k up to the ring's and all
\* unsigned values of k bits, or signed arrays
CarryInit ==
    \E fn \in {"wrap2", "wrap3"}, k \in 1 .. RingBits, kind \in {"u", "i"} :
       \E a \in [Parties -> 0 .. (2 ^ k - 1)] :
          /\ kind = "i" => (\A i \in Parties : a[i] = 0)
          /\ fn = "wrap2" => a[2] = 0
          /\ nl = [fn |-> fn, pc |-> "compute", a |-> a, k |-> k, x |-> 0,
                   r |-> 0, x_rand |-> << >>, r1 |-> 0, r2 |-> 0,
                   beta_2 |-> 0, m |-> 0, n_samples |-> 0, out |-> NoValue,
                   view |-> << >>, kind |-> kind]

\* private_compare(bits(x), r) for every width k, x and r of k bits
CompareInit ==
    \E k \in 1 .. RingBits :
       \E x \in 0 .. (2 ^ k - 1), r \in 0 .. (2 ^ k - 1), beta_2 \in 0 .. 1 :
          nl = NlCall("private_compare", << >>, k, x, r, << >>, 0, 0, beta_2)

\* wrap(a) / drelu(a) for every sharing a and every random sharing x
WrapInit(fn) ==
    \E a \in [Parties -> Ring], x_rand \in [Parties -> Ring],
       r1 \in 0 .. 1, r2 \in 0 .. 1, beta_2 \in 0 .. 1 :
          nl = NlCall(fn, a, RingBits, 0, 0, x_rand, r1, r2, beta_2)

(***************************************************************************)
(* Falcon.bounding_pow on a session whose ring has 2^BitExp bits.          *)
(***************************************************************************)
bp_ring_bits == 2 ^ BitExp
bp_ring_size == 2 ^ bp_ring_bits

\* the share components and random values the calls on this ring draw from
SmallRing == {0, 1, bp_ring_size - 1}

\* x - public: the public value goes to the first component
sub_public(a, v, ring_size) == [a EXCEPT ![0] = (a[0] - v) % ring_size]

\* lines 806-807, 809: the shape check and alpha = -1
BoundingPowEnter ==
    /\ nl.pc = "call"
    /\ nl.fn = "bounding_pow"
    /\ IF nl.shape = None
       THEN nl' = [nl EXCEPT !.pc = "raised", !.exc = "ValueError"]
       ELSE nl' = [nl EXCEPT !.pc = "loop", !.alpha = 0 - 1,
                             !.i = BitExp - 1]
    /\ UNCHANGED <<hist, co, mulvars, sel, div>>

\* lines 813-819: one round of the binary search; drelu draws its random
\* sharing, bits and blinding factor; r_c is opened
BoundingPowRound ==
    /\ nl.pc = "loop"
    /\ nl.fn = "bounding_pow"
    /\ \E x_rand \in [Parties -> SmallRing], r1 \in 0 .. 1, r2 \in 0 .. 1,
          beta_2 \in 0 .. 1, m_r \in {1, PRIME_NUMBER - 1} :
          LET c   == sub_public(nl.a, 2 ^ (2 ^ nl.i + nl.alpha), bp_ring_size)
              r_c == drelu(c, x_rand, r1, r2, beta_2, m_r, bp_ring_bits)
              al  == IF r_c = 1 THEN nl.alpha + 2 ^ nl.i ELSE nl.alpha
          IN  nl' = [nl EXCEPT !.alpha = al,
                               !.n_drelu = @ + 1,
                               !.i = @ - 1,
                               !.pc = IF nl.i = 0 THEN "returned" ELSE "loop",
                               !.out = IF nl.i = 0 THEN al ELSE @]
    /\ UNCHANGED <<hist, co, mulvars, sel, div>>

BpCall(a, shape) ==
    [fn |-> "bounding_pow", pc |-> "call", a |-> a, shape |-> shape,
     alpha |-> 0, i |-> 0, n_drelu |-> 0, out |-> NoValue, exc |-> None]

\* the sharings (v - s - t, s, t) of v on the ring of bounding_pow
BpSharings(v) ==
    {(0 :> ((v - s - t) % bp_ring_size)) @@ (1 :> s) @@ (2 :> t) :
        s \in SmallRing, t \in SmallRing}

\* bounding_pow(x) for every positive x of the signed ring; a tensor
\* without shape is rejected
BoundingPowInit ==
    \E v \in 1 .. (bp_ring_size \div 2 - 1) :
       \E a \in BpSharings(v), shape \in {"shape", None} :
          /\ shape = None => a = (0 :> v) @@ (1 :> 0) @@ (2 :> 0)
          /\ nl = BpCall(a, shape)

(***************************************************************************)
(* Falcon.select_shares.  Tensors of MaxLen elements; b, c: bits.          *)
(***************************************************************************)
Elems == 1 .. MaxLen

\* mask ^ 1 on an integer tensor: the lowest bit flipped
xor_one(v) == IF v % 2 = 0 THEN v + 1 ELSE v - 1

\* line 474: (b ^ c).reconstruct(decode=False), one element
select_mask(b, c) == Xor(b, c)

\* line 476 without the flip of the mask
select_d_NoFlip(mask, c_r) ==
    op_add(op_sub(mask, op_mul(c_r, mask)), op_mul(c_r, mask))

\* line 476, one element: mask is public, c_r a secret of the session ring
select_d(mask, c_r) ==
    op_add(op_sub(mask, op_mul(c_r, mask)), op_mul(c_r, xor_one(mask)))

\* line 479, one element
select_z(x, y, d) == op_add(x, op_mul(d, op_sub(y, x)))

\* b: a tensor of sel.b_len elements; x, y: tensors of MaxLen elements.
\* Lines 449-456 are the checks; lines 460-468 draw c with the shape of b;
\* line 474 opens the mask; lines 476-479 are tensor arithmetic, which
\* broadcasts a one-element d and fails on any other shape that differs.
SelectShares ==
    /\ sel.pc = "call"
    /\ IF sel.ring_size # 2
       THEN sel' = [sel EXCEPT !.pc = "raised", !.exc = "ValueError"]
       ELSE IF sel.shape = None
       THEN sel' = [sel EXCEPT !.pc = "raised", !.exc = "ValueError"]
       ELSE LET BElems == 1 .. sel.b_len
                c_r  == [i \in BElems |-> bit_injection(sel.c[i], RING_SIZE)]
                mask == [i \in BElems |-> select_mask(sel.b[i], sel.c[i])]
                d    == [i \in BElems |-> select_d(mask[i], c_r[i])]
                d_at(i) == IF sel.b_len = 1 THEN d[1] ELSE d[i]
                z    == [i \in Elems |-> select_z(sel.x[i], sel.y[i], d_at(i))]
            IN  IF sel.b_len \in {1, MaxLen}
                THEN sel' = [sel EXCEPT !.mask = mask, !.d = d, !.z = z,
                                        !.n_random = @ + 1,
                                        !.opened = @ \cup {"mask"},
                                        !.pc = "returned"]
                ELSE sel' = [sel EXCEPT !.mask = mask, !.d = d,
                                        !.n_random = @ + 1,
                                        !.opened = @ \cup {"mask"},
                                        !.pc = "raised",
                                        !.exc = "RuntimeError"]
    /\ UNCHANGED <<hist, co, mulvars, nl, div>>

SelCall(ring_size, shape, b_len, x, y, b, c) ==
    [pc |-> "call", ring_size |-> ring_size, shape |-> shape, b_len |-> b_len,
     x |-> x, y |-> y, b |-> b, c |-> c, mask |-> << >>, d |-> << >>,
     z |-> << >>, n_random |-> 0, opened |-> {}, exc |-> None]

SelIdle == sel = [SelCall(2, None, 0, << >>, << >>, << >>, << >>) EXCEPT !.pc = "idle"]

\* x and y run over the ramps x0, x0+1, ... and y0, y0-1, ...; b and c over
\* all bit tensors of the shape of x; a selector of another ring or without
\* shape is rejected
SelectInit ==
    \E x0 \in Ring, y0 \in Ring, b \in [Elems -> 0 .. 1], c \in [Elems -> 0 .. 1] :
       \E k \in {<<2, "shape">>, <<RING_SIZE, "shape">>, <<2, None>>} :
          /\ (k # <<2, "shape">>) => (x0 = 1 /\ y0 = 2)
          /\ sel = SelCall(k[1], k[2], MaxLen,
                           [i \in Elems |-> (x0 + i - 1) % RING_SIZE],
                           [i \in Elems |-> (y0 - i + 1) % RING_SIZE], b, c)

\* a ring-2 selector whose shape is not the one of x and y: one element, or
\* one element more
SelectMismatchInit ==
    \E b_len \in {1, MaxLen + 1} :
       \E b \in [1 .. b_len -> 0 .. 1], c \in [1 .. b_len -> 0 .. 1] :
          sel = SelCall(2, "shape", b_len,
                        [i \in Elems |-> (1 + i - 1) % RING_SIZE],
                        [i \in Elems |-> (2 - i + 1) % RING_SIZE], b, c)

(***************************************************************************)
(* Falcon.relu on one element of the session ring.                         *)
(***************************************************************************)
\* lines 772-775: the shape check
ReluEnter ==
    /\ nl.pc = "call"
    /\ nl.fn = "relu"
    /\ IF nl.shape = None
       THEN nl' = [nl EXCEPT !.pc = "raised", !.exc = "ValueError"]
       ELSE nl' = [nl EXCEPT !.pc = "sample"]
    /\ UNCHANGED <<hist, co, mulvars, sel, div>>

\* what relu's result reconstructs to: lines 777-781, with drelu's and
\* select_shares's random bits r1, r2 and c
relu(a, x, r1, r2, beta_2, m, c) ==
    LET b    == Xor(drelu(a, x, r1, r2, beta_2, m, RingBits), 1)
        c_r  == bit_injection(c, RING_SIZE)
        mask == select_mask(b, c)
        d    == select_d(mask, c_r)
    IN  select_z(shares_sum(<<a[0], a[1], a[2]>>, RING_SIZE), 0, d)

Relu ==
    /\ nl.pc = "compute"
    /\ nl.fn = "relu"
    /\ \E r1 \in 0 .. 1, r2 \in 0 .. 1, c \in 0 .. 1 :
          nl' = [nl EXCEPT
                    !.out = relu(nl.a, nl.x_rand, r1, r2, nl.beta_2, nl.m, c),
                    !.pc = "returned"]
    /\ UNCHANGED <<hist, co, mulvars, sel, div>>

ReluCall(a, shape, x_rand, beta_2) ==
    [fn |-> "relu", pc |-> "call", a |-> a, shape |-> shape,
     x_rand |-> x_rand, beta_2 |-> beta_2, m |-> 0, n_samples |-> 0,
     out |-> NoValue, exc |-> None]

\* relu(a) for every sharing a and every random sharing of drelu; a tensor
\* without shape is rejected
ReluInit ==
    \E a \in [Parties -> Ring], x_rand \in [Parties -> Ring],
       beta_2 \in 0 .. 1, shape \in {"shape", None} :
          /\ shape = None => (x_rand = [i \in Parties |-> 0] /\ beta_2 = 0)
          /\ nl = ReluCall(a, shape, x_rand, beta_2)

(***************************************************************************)
(* Falcon.division: the configs of the operands' shares and the exits of   *)
(* the call.  The session is the one of the multiplication model; a        *)
(* product inside division is a call of mul_master, which raises in a      *)
(* malicious session when a party deviates.                                *)
(***************************************************************************)
ConfigSet == {[base |-> 2, precision |-> 1], [base |-> 2, precision |-> 12],
              [base |-> 10, precision |-> 2]}
NrProducts == 5

\* the fixed-point integer of a public value v / 4
encode_quarters(v, cfg) == (v * cfg.base ^ cfg.precision) \div 4

\* Falcon.bounding_pow as division calls it, on the fixed-point integer b:
\* round i tests the sign of b - encode(2^(2^i + alpha)); the bit of each
\* round is the exact sign
RECURSIVE bounding_alpha(_, _, _, _)
bounding_alpha(b, cfg, i, alpha) ==
    IF i < 0 THEN alpha
    ELSE LET c == b - (2 ^ (2 ^ i + alpha)) * cfg.base ^ cfg.precision
         IN  bounding_alpha(b, cfg, i - 1,
                            IF c >= 0 THEN alpha + 2 ^ i ELSE alpha)

\* ABY3.truncate of a nonnegative value by base^n
truncate_by(v, base, n) == v \div (base ^ n)

\* line 865
precision_n(alpha, cfg) == alpha + 1 + cfg.precision
\* line 867
scale_n(alpha, cfg) == cfg.base ^ precision_n(alpha, cfg)
\* line 868, encoded as an integer
const_two_point_nine(alpha, cfg) == (29142 * scale_n(alpha, cfg)) \div 10000

DivRaise(e) == div' = [div EXCEPT !.pc = "raised", !.exc = e]

\* lines 839-859: the shape check, then alpha (bounding_pow of a private b,
\* log2 and encoding of a public one)
DivisionEnter ==
    /\ div.pc = "call"
    /\ IF div.shape = None
       THEN DivRaise("ValueError")
       ELSE div' = [div EXCEPT
                       !.alpha = bounding_alpha(div.b, config, BitExp - 1, 0 - 1),
                       !.pc = "force"]
    /\ UNCHANGED <<hist, co, mulvars, nl, sel>>

\* lines 861-871: b.share_ptrs of a public b (a plain tensor) raises before
\* the loop starts; else every share of a and b gets config (1, 0), and w0
\* is computed
DivisionForceConfig ==
    /\ div.pc = "force"
    /\ IF ~div.is_private
       THEN DivRaise("AttributeError")
       ELSE div' = [div EXCEPT
                       !.a_cfg = [i \in Parties |-> [base |-> 1, precision |-> 0]],
                       !.b_cfg = [i \in Parties |-> [base |-> 1, precision |-> 0]],
                       !.w0 = const_two_point_nine(div.alpha, config) - 2 * div.b,
                       !.pc = "product"]
    /\ UNCHANGED <<hist, co, mulvars, nl, sel>>

\* the values after the k-th product and its truncation: lines 873-878,
\* 880-885, 887-894, 896-901, 903-910
division_step(d, cfg) ==
    LET n         == precision_n(d.alpha, cfg)
        const_one == scale_n(d.alpha, cfg)
    IN  CASE d.n_products = 0 ->
               [d EXCEPT !.epsilon0 =
                   const_one - truncate_by(d.b * d.w0, cfg.base, n)]
          [] d.n_products = 1 ->
               [d EXCEPT !.epsilon1 =
                   truncate_by(d.epsilon0 * d.epsilon0, cfg.base, n)]
          [] d.n_products = 2 ->
               [d EXCEPT !.term_mul =
                   truncate_by((const_one + d.epsilon0) * (const_one + d.epsilon1),
                               cfg.base, n)]
          [] d.n_products = 3 ->
               [d EXCEPT !.b_inv = truncate_by(d.w0 * d.term_mul, cfg.base, n)]
          [] OTHER ->
               [d EXCEPT !.result =
                   truncate_by(d.a * d.b_inv, cfg.base, 2 * n - cfg.precision)]

\* lines 874, 880-883, 889-892, 896-899, 903-908: the next of the five
\* products b*w0, epsilon0*epsilon0, term_one*term_two, w0*term_mul and
\* a*b_inv, each followed by its truncation
DivisionProduct ==
    /\ div.pc = "product"
    /\ \E deviates \in {FALSE, security_type = "malicious" /\ zerr # 0} :
          IF deviates
          THEN DivRaise("ValueError: Computation Aborted")
          ELSE div' = [division_step(div, config) EXCEPT
                          !.n_products = @ + 1,
                          !.pc = IF div.n_products + 1 = NrProducts
                                 THEN "restore" ELSE "product"]
    /\ UNCHANGED <<hist, co, mulvars, nl, sel>>

\* lines 912-916
DivisionRestore ==
    /\ div.pc = "restore"
    /\ div' = [div EXCEPT
                  !.a_cfg = [i \in Parties |-> config],
                  !.b_cfg = [i \in Parties |-> config],
                  !.pc = "returned"]
    /\ UNCHANGED <<hist, co, mulvars, nl, sel>>

\* a, b: the fixed-point integers the operands reconstruct to
DivCall(is_private, shape, cfg, a, b) ==
    [pc |-> "call", is_private |-> is_private, shape |-> shape,
     a_cfg |-> [i \in Parties |-> cfg], b_cfg |-> [i \in Parties |-> cfg],
     a |-> a, b |-> b, alpha |-> 0, w0 |-> 0, epsilon0 |-> 0, epsilon1 |-> 0,
     term_mul |-> 0, b_inv |-> 0, result |-> 0,
     n_products |-> 0, exc |-> None]

DivIdle == div = [DivCall(TRUE, None, [base |-> 2, precision |-> 1], 0, 0) EXCEPT !.pc = "idle"]

\* the locals of a call that has not started
CallLocals ==
    /\ pc = "call"
    /\ result = NoTensor
    /\ eps = NoValue
    /\ delta = NoValue
    /\ mask_tr = NoTriple
    /\ residual = NoShares
    /\ ret = NoTensor
    /\ exc = None
    /\ n_product = 0
    /\ n_generate = 0
    /\ n_mask = 0
    /\ n_verify = 0
    /\ n_truncate = 0
    /\ opened = {}

\* a call that has not started, the first one of its session
CallStart == CallLocals /\ NewSession

\* a 3-party session and a call of multiply(x, y, "mul") for any x and y;
\* parties deviate in malicious sessions only
MulInit ==
    /\ nr_parties = 3
    /\ security_type \in security_levels
    /\ config = [base |-> 2, precision |-> 1]
    /\ seed \in Seeds
    /\ zerr \in ErrVals
    /\ cerr \in ErrVals
    /\ security_type = "semi-honest" => (zerr = 0 /\ cerr = 0)
    /\ store \in InitialStores(seed, cerr)
    /\ \E x \in Ring, y \in Ring :
          /\ x_sh = Sharing(x, seed, 0)
          /\ y_sh = Sharing(y, seed, 2)
    /\ CallStart

\* a session that mul_master rejects: not 3 parties, or a security type
\* that is neither of the two levels
BadSessionInit ==
    /\ \E k \in {<<2, "malicious">>, <<3, "covert">>, <<4, "semi-honest">>} :
          nr_parties = k[1] /\ security_type = k[2]
    /\ config = [base |-> 2, precision |-> 1]
    /\ seed \in Seeds
    /\ zerr = 0
    /\ cerr = 0
    /\ store \in {<< >>, <<GeneratedTriple(seed, 1, 0)>>}
    /\ \E x \in {1, RING_SIZE - 1} :
          /\ x_sh = Sharing(x, seed, 0)
          /\ y_sh = Sharing(x, seed, 2)
    /\ CallStart

\* Falcon(security_type) is being constructed, for the session of a later
\* multiply
ConstructInit ==
    /\ nr_parties = 3
    /\ security_type \in security_levels \cup {"covert"}
    /\ config = [base |-> 2, precision |-> 1]
    /\ seed \in Seeds
    /\ zerr = 0
    /\ cerr = 0
    /\ store \in {<< >>, <<GeneratedTriple(seed, 1, 0)>>}
    /\ \E x \in {1, RING_SIZE - 1} :
          /\ x_sh = Sharing(x, seed, 0)
          /\ y_sh = Sharing(x, seed, 2)
    /\ n_product = 0
    /\ pc = "construct"
    /\ result = NoTensor
    /\ eps = NoValue
    /\ delta = NoValue
    /\ mask_tr = NoTriple
    /\ residual = NoShares
    /\ ret = NoTensor
    /\ exc = None
    /\ n_generate = 0
    /\ n_mask = 0
    /\ n_verify = 0
    /\ n_truncate = 0
    /\ opened = {}
    /\ NewSession

\* the stores a session of several calls can start from: empty, or up to
\* MaxStore generated triples
SessionStores(sd, e) ==
    {<< >>} \cup
    {[k \in 1 .. n |-> GeneratedTriple(sd, 10 + k, e)] : n \in 1 .. MaxStore}

\* a 3-party session of either level, its store, and the first
\* multiplication of a sequential run
SequentialInit ==
    /\ nr_parties = 3
    /\ security_type \in security_levels
    /\ config = [base |-> 2, precision |-> 1]
    /\ seed \in Seeds
    /\ zerr \in ErrVals
    /\ cerr \in ErrVals
    /\ security_type = "semi-honest" => (zerr = 0 /\ cerr = 0)
    /\ store \in SessionStores(seed, cerr)
    /\ \E x \in LaterOperands, y \in LaterOperands :
          /\ x_sh = Sharing(x, seed, 0)
          /\ y_sh = Sharing(y, seed, 2)
    /\ CallStart

\* a malicious session with honest parties and two multiplications of the
\* same operator and shapes, both at their first line
InterleavedInit ==
    /\ nr_parties = 3
    /\ security_type = "malicious"
    /\ config = [base |-> 2, precision |-> 1]
    /\ seed \in Seeds
    /\ zerr = 0
    /\ cerr = 0
    /\ store \in SessionStores(seed, cerr)
    /\ \E x \in LaterOperands, y \in LaterOperands :
          /\ x_sh = Sharing(x, seed, 0)
          /\ y_sh = Sharing(y, seed, 2)
    /\ CallLocals
    /\ hist = [n_calls |-> 0, n_malicious |-> 0, n_generated |-> 0,
               n_start |-> Len(store)]
    /\ \E x \in LaterOperands, y \in LaterOperands : co = NewCall(x, y)

\* a semi-honest session and any two replicated sharings as operands
SemiInit ==
    /\ nr_parties = 3
    /\ security_type = "semi-honest"
    /\ config = [base |-> 2, precision |-> 1]
    /\ seed = 0
    /\ zerr = 0
    /\ cerr = 0
    /\ store = << >>
    /\ x_sh \in [Parties -> Ring]
    /\ y_sh \in [Parties -> Ring]
    /\ CallStart

\* no call of multiply: a 3-party session only
MulIdle ==
    /\ nr_parties = 3
    /\ security_type = "semi-honest"
    /\ config = [base |-> 2, precision |-> 1]
    /\ seed = 0
    /\ zerr = 0
    /\ cerr = 0
    /\ store = << >>
    /\ x_sh = NoShares
    /\ y_sh = NoShares
    /\ pc = "idle"
    /\ result = NoTensor
    /\ eps = NoValue
    /\ delta = NoValue
    /\ mask_tr = NoTriple
    /\ residual = NoShares
    /\ ret = NoTensor
    /\ exc = None
    /\ n_product = 0
    /\ n_generate = 0
    /\ n_mask = 0
    /\ n_verify = 0
    /\ n_truncate = 0
    /\ opened = {}
    /\ NewSession

\* a session of either security level, with or without a deviating party,
\* and a call of division(a, b) with a private or a public b; a is 1, 3 or
\* 7 and b runs from 1/4 to 3, as far as the config represents them
DivisionInit ==
    /\ nr_parties = 3
    /\ security_type \in security_levels
    /\ config \in ConfigSet
    /\ seed = 0
    /\ zerr \in ErrVals
    /\ cerr = 0
    /\ security_type = "semi-honest" => zerr = 0
    /\ store = << >>
    /\ x_sh = NoShares
    /\ y_sh = NoShares
    /\ pc = "idle"
    /\ result = NoTensor
    /\ eps = NoValue
    /\ delta = NoValue
    /\ mask_tr = NoTriple
    /\ residual = NoShares
    /\ ret = NoTensor
    /\ exc = None
    /\ n_product = 0
    /\ n_generate = 0
    /\ n_mask = 0
    /\ n_verify = 0
    /\ n_truncate = 0
    /\ opened = {}
    /\ NewSession
    /\ \E is_private \in BOOLEAN, shape \in {"shape", None},
          a4 \in {4, 12, 28}, b4 \in {1, 2, 3, 4, 6, 8, 12} :
          /\ (b4 * config.base ^ config.precision) % 4 = 0
          /\ (~is_private \/ shape = None) => (a4 = 4 /\ b4 = 4)
          /\ div = DivCall(is_private, shape, config,
                           encode_quarters(a4, config),
                           encode_quarters(b4, config))

MulNext ==
    \/ FalconInit
    \/ MulMasterRaise
    \/ MulSemiHonest
    \/ MulMaliciousProduct
    \/ FalconMask
    \/ GeneratePrimitives
    \/ FalconMaskRetry
    \/ TripleVerification
    \/ Truncate

\* one call of multiply on a session of its own
Init == (MulInit \/ BadSessionInit \/ ConstructInit) /\ NlIdle /\ SelIdle /\ DivIdle
Next == MulNext
Spec == Init /\ [][Next]_vars

\* the call shares its session's store with other calls
NextShared == MulNext \/ ConcurrentVerification
SpecShared == Init /\ [][NextShared]_vars

\* a sequential run of multiplications on one session
InitSequential == SequentialInit /\ NlIdle /\ SelIdle /\ DivIdle
NextSequential ==
    \/ MulSemiHonest
    \/ MulMaliciousProduct
    \/ FalconMask
    \/ GeneratePrimitives
    \/ FalconMaskRetry
    \/ TripleVerification
    \/ Truncate
    \/ NextCall
SpecSequential == InitSequential /\ [][NextSequential]_vars

\* two malicious multiplications in flight on one session
InitInterleaved == InterleavedInit /\ NlIdle /\ SelIdle /\ DivIdle
NextInterleaved ==
    \/ MulMaliciousProduct
    \/ FalconMask
    \/ GeneratePrimitives
    \/ FalconMaskRetry
    \/ TripleVerification
    \/ Truncate
    \/ Switch
SpecInterleaved == InitInterleaved /\ [][NextInterleaved]_vars

\* semi-honest multiplication of every pair of sharings
InitSemi == SemiInit /\ NlIdle /\ SelIdle /\ DivIdle
NextSemi == MulSemiHonest \/ Truncate
SpecSemi == InitSemi /\ [][NextSemi]_vars

\* private_compare on every input
InitCompare == MulIdle /\ CompareInit /\ SelIdle /\ DivIdle
NextCompare == RandomPrimeGroup(Field) \/ PrivateCompare
SpecCompare == InitCompare /\ [][NextCompare]_vars

\* wrap2 and wrap3 on every pair and triple of values
InitCarry == MulIdle /\ CarryInit /\ SelIdle /\ DivIdle
NextCarry == Wrap2 \/ Wrap3
SpecCarry == InitCarry /\ [][NextCarry]_vars

\* wrap on every sharing
InitWrap == MulIdle /\ WrapInit("wrap") /\ SelIdle /\ DivIdle
NextWrap == RandomPrimeGroup(SmallSamples) \/ Wrap
SpecWrap == InitWrap /\ [][NextWrap]_vars

\* drelu on every sharing
InitDrelu == MulIdle /\ WrapInit("drelu") /\ SelIdle /\ DivIdle
NextDrelu == RandomPrimeGroup(SmallSamples) \/ Drelu
SpecDrelu == InitDrelu /\ [][NextDrelu]_vars

\* bounding_pow
InitBounding == MulIdle /\ BoundingPowInit /\ SelIdle /\ DivIdle
NextBounding == BoundingPowEnter \/ BoundingPowRound
SpecBounding == InitBounding /\ [][NextBounding]_vars

\* relu
InitRelu == MulIdle /\ ReluInit /\ SelIdle /\ DivIdle
NextRelu == ReluEnter \/ RandomPrimeGroup(SmallSamples) \/ Relu
SpecRelu == InitRelu /\ [][NextRelu]_vars

\* select_shares
InitSelect == MulIdle /\ NlIdle /\ (SelectInit \/ SelectMismatchInit) /\ DivIdle
NextSelect == SelectShares
SpecSelect == InitSelect /\ [][NextSelect]_vars

\* division
InitDivision == DivisionInit /\ NlIdle /\ SelIdle
NextDivision ==
    \/ DivisionEnter
    \/ DivisionForceConfig
    \/ DivisionProduct
    \/ DivisionRestore
SpecDivision == InitDivision /\ [][NextDivision]_vars

(***************************************************************************)
(* Properties of multiplication.                                           *)
(***************************************************************************)
XPlain == shares_sum(<<x_sh[0], x_sh[1], x_sh[2]>>, RING_SIZE)
YPlain == shares_sum(<<y_sh[0], y_sh[1], y_sh[2]>>, RING_SIZE)
Honest == zerr = 0 /\ cerr = 0

\* C1: in a semi-honest session, once the three parties have computed their
\* masked local values from any two replicated sharings, the three values
\* sum mod ring to the product of the two secrets, and the three masks
\* added to them sum to zero.
C1_SemiHonestProduct ==
    (pc = "truncate" /\ security_type = "semi-honest") =>
        /\ result.kind = "3of3"
        /\ reconstruct3(result.sh) = op_mul(XPlain, YPlain)
        /\ \A i \in Parties :
              result.sh[i] =
                  op_add(multiplication_protocol(distribute_shares(x_sh)[i],
                                                 distribute_shares(y_sh)[i]),
                         przs_generate_random_share(seed, i))
        /\ shares_sum([i \in 1 .. 3 |-> przs_generate_random_share(seed, i - 1)],
                      RING_SIZE) = 0

\* C1 witness: a product of sharings with no zero component that wraps
\* around the ring has been computed
C1_Witness ==
    /\ pc = "truncate"
    /\ security_type = "semi-honest"
    /\ \A i \in Parties : x_sh[i] # 0 /\ y_sh[i] # 0
    /\ XPlain * YPlain >= RING_SIZE
    /\ \E i \in Parties : przs_generate_random_share(seed, i) # 0

\* C2: with honest parties and an honest triple, the residual that a
\* malicious multiplication opens is zero, the call does not raise, and the
\* product it passes on is the product of the secrets, as in the
\* semi-honest path.
C2_HonestResidualZero ==
    (security_type = "malicious" /\ nr_parties = 3 /\ Honest) =>
        /\ pc # "raised"
        /\ residual # NoShares => reconstruct(residual) = 0
        /\ pc = "truncate" =>
              /\ Plain(result) = op_mul(XPlain, YPlain)
              /\ Plain(result) =
                    Plain(mul_semi_honest(x_sh, y_sh, seed, 0, FALSE))

\* C2 witness: an honest call has verified with nonzero eps and delta, a
\* nonzero product, and is about to return
C2_Witness ==
    /\ security_type = "malicious"
    /\ Honest
    /\ pc = "truncate"
    /\ eps \notin {NoValue, 0}
    /\ delta \notin {NoValue, 0}
    /\ op_mul(eps, delta) # 0
    /\ Plain(result) # 0
    /\ reconstruct(residual) = 0

\* C3: whenever the opened residual is nonzero, the call has raised the
\* abort error, the caller has received nothing and no truncation ran.
C3_NonzeroResidualAborts ==
    (residual # NoShares /\ reconstruct(residual) # 0) =>
        /\ pc = "raised"
        /\ exc = "ValueError: Computation Aborted"
        /\ ret = NoTensor
        /\ n_truncate = 0

\* C3 witness: a call aborted on a nonzero residual after computing a product
C3_Witness ==
    /\ pc = "raised"
    /\ residual # NoShares
    /\ reconstruct(residual) # 0
    /\ result # NoTensor
    /\ Plain(result) # 0

\* C9: the batch is generated at most once and only after the first masking
\* found the store empty, the masking runs at most twice, the product is
\* computed once, and a shortage at the second masking ends the call with
\* EmptyPrimitiveStore instead of another generation; a second masking that
\* finds a triple goes on to verification.
C9_OneShotRecovery ==
    /\ n_generate <= 1
    /\ n_mask <= 2
    /\ n_product <= 1
    /\ pc = "generate" => (n_mask = 1 /\ n_generate = 0)
    /\ pc = "retry" => (n_mask = 1 /\ n_generate = 1)
    /\ n_mask = 2 =>
          /\ n_generate = 1
          /\ n_product = 1
          /\ pc \in {"verify", "truncate", "returned", "raised"}
          /\ (pc = "raised" /\ n_verify = 0) => exc = "EmptyPrimitiveStore"
          /\ n_verify = 0 => (pc = "verify" <=> eps # NoValue)

\* C9 witness: the second masking found the store empty again and the call
\* ended there
C9_Witness ==
    /\ pc = "raised"
    /\ exc = "EmptyPrimitiveStore"
    /\ n_mask = 2
    /\ n_generate = 1
    /\ n_verify = 0
    /\ n_product = 1

\* C10: in a malicious session, whatever the caller receives went through
\* one triple verification whose opened residual was zero.
C10_NoDowngrade ==
    (security_type = "malicious" /\ (ret # NoTensor \/ pc \in {"truncate", "returned"})) =>
        /\ n_verify = 1
        /\ residual # NoShares
        /\ reconstruct(residual) = 0
        /\ result.kind = "rss"

\* C10 witness: a malicious call returned after recovering from a shortage
C10_Witness ==
    /\ security_type = "malicious"
    /\ pc = "returned"
    /\ ret # NoTensor
    /\ n_generate = 1
    /\ n_mask = 2

\* C19: after triple_verification the residual is still a replicated
\* sharing, the second share of every party being the first share of the
\* next one, and it reconstructs to z - (c + delta*a + eps*b + eps*delta),
\* with the eps*delta term once (z is the product as it is before the
\* truncation).
C19_CrossTermOnce ==
    (residual # NoShares /\ pc \in {"truncate", "raised"}) =>
        /\ \A i \in Parties : residual[i][2] = residual[(i + 1) % 3][1]
        /\ reconstruct(residual) =
              (Plain(result)
                 - (reconstruct(mask_tr.c) + delta * reconstruct(mask_tr.a)
                    + eps * reconstruct(mask_tr.b) + eps * delta)) % RING_SIZE

\* C19 witness: a verification ran with a cross-term that is not zero
C19_Witness ==
    /\ residual # NoShares
    /\ n_verify = 1
    /\ op_mul(eps, delta) # 0
    /\ pc = "truncate"

\* C20: a multiply call that returned has truncated once; the truncation
\* is the step that returns, it comes after the one product and, in a
\* malicious session, after the one verification whose residual opened to
\* zero, and what the caller gets is the truncated product, unchanged from
\* then on.
C20_TruncationLast ==
    /\ [](/\ n_truncate = (IF pc = "returned" THEN 1 ELSE 0)
          /\ pc = "returned" =>
                /\ n_product = 1
                /\ ret = result
                /\ ret # NoTensor
                /\ security_type = "malicious" =>
                      (n_verify = 1 /\ reconstruct(residual) = 0))
    /\ [][n_truncate' # n_truncate =>
            /\ pc = "truncate"
            /\ pc' = "returned"
            /\ n_product = 1
            /\ security_type = "malicious" => n_verify = 1
            /\ result' = truncate(result, config, seed)
            /\ ret' = result']_vars
    /\ [][pc = "returned" => (result' = result /\ ret' = ret)]_vars

\* C20 witness: a malicious call returned the truncated product without a
\* shortage on its way
C20_Witness ==
    /\ pc = "returned"
    /\ security_type = "malicious"
    /\ n_truncate = 1
    /\ n_verify = 1
    /\ n_generate = 0
    /\ ret = result

\* the triple satisfies c = a*b
TripleHonest(tr) ==
    reconstruct(tr.c) = op_mul(reconstruct(tr.a), reconstruct(tr.b))

\* the reshared product of the call, as the parties computed it
ResharedProduct == Plain(mul_semi_honest(x_sh, y_sh, seed, zerr, TRUE))

\* C24: when the triple of a malicious multiplication satisfies c = a*b,
\* the opened residual is z - x*y mod ring; if the reshared product z
\* differs from x*y the residual is nonzero, the call aborts, and it never
\* gets to the truncation or to the caller.
C24_TamperedProductDetected ==
    /\ (residual # NoShares /\ pc \in {"truncate", "raised"}
          /\ TripleHonest(mask_tr)) =>
          /\ Plain(result) = ResharedProduct
          /\ reconstruct(residual) =
                op_sub(ResharedProduct, op_mul(XPlain, YPlain))
          /\ ResharedProduct # op_mul(XPlain, YPlain) =>
                /\ reconstruct(residual) # 0
                /\ pc = "raised"
                /\ exc = "ValueError: Computation Aborted"
                /\ ret = NoTensor
    /\ (security_type = "malicious" /\ nr_parties = 3 /\ cerr = 0
          /\ ResharedProduct # op_mul(XPlain, YPlain)) =>
          /\ pc \notin {"truncate", "returned"}
          /\ ret = NoTensor
          /\ n_truncate = 0

\* C24 witness: a call with an honest triple, nonzero masked values and a
\* tampered product of nonzero secrets has aborted at its verification
C24_Witness ==
    /\ pc = "raised"
    /\ n_verify = 1
    /\ residual # NoShares
    /\ TripleHonest(mask_tr)
    /\ op_mul(eps, delta) # 0
    /\ op_mul(XPlain, YPlain) # 0
    /\ ResharedProduct # op_mul(XPlain, YPlain)
    /\ reconstruct(residual) # 0

\* malicious multiplications of the run that have ended, triples the run
\* generated, and triples its verifications took
MaliciousDone ==
    hist.n_malicious
      + (IF security_type = "malicious" /\ pc \in {"returned", "raised"}
         THEN 1 ELSE 0)
Generated == hist.n_generated + n_generate
Taken == hist.n_malicious + n_verify

\* C21: in a sequential run the masking step leaves the store as it is,
\* the verification step takes exactly the first triple out of it, which
\* is the triple the masking read, and a semi-honest multiplication takes
\* none and generates none; so when n malicious multiplications have ended
\* the store holds the triples it started with, plus those generated on a
\* shortage, minus n.
C21_PeekThenConsume ==
    /\ [](/\ Len(store) = hist.n_start + Generated - Taken
          /\ pc \in {"returned", "raised"} =>
                Len(store) = hist.n_start + Generated - MaliciousDone
          /\ security_type = "semi-honest" =>
                (Len(store) = hist.n_start /\ Generated = 0 /\ Taken = 0))
    /\ [][n_mask' = n_mask + 1 => store' = store]_vars
    /\ [][n_verify' = n_verify + 1 =>
            /\ store # << >>
            /\ store' = Tail(store)
            /\ Head(store) = mask_tr]_vars
    /\ [][store' # store =>
            \/ n_verify' = n_verify + 1
            \/ n_generate' = n_generate + 1]_vars

\* C21 as it is stated: when n malicious multiplications have ended the
\* store holds exactly n fewer triples than it started with
C21_ExactlyNFewer ==
    pc \in {"returned", "raised"} =>
        Len(store) = hist.n_start - MaliciousDone

\* C21 witness: the second malicious multiplication of a run returned, and
\* the store, which held enough triples, has two fewer
C21_Witness ==
    /\ security_type = "malicious"
    /\ hist.n_calls = MaxCalls - 1
    /\ pc = "returned"
    /\ Generated = 0
    /\ MaliciousDone = MaxCalls
    /\ Len(store) = hist.n_start - MaxCalls

\* the residual of the call c is the one verification computes against the
\* triple the call masked with
VerifiedAgainstMasked(c) ==
    (c.residual # NoShares /\ c.pc \in {"truncate", "raised"}) =>
        c.residual = [i \in Parties |->
                         triple_verification(c.result.sh[i], c.eps, c.delta,
                                             c.mask_tr, i)]

\* C25: when two malicious multiplications of the same operator and shapes
\* interleave their steps on one session with honest parties, no triple
\* masks the inputs of both calls, each call verifies against the triple it
\* masked with, and neither call raises.
C25_InterleavedCallsKeepTriples ==
    /\ (mask_tr # NoTriple /\ co.mask_tr # NoTriple) => mask_tr # co.mask_tr
    /\ VerifiedAgainstMasked(Locals)
    /\ VerifiedAgainstMasked(co)
    /\ pc # "raised"
    /\ co.pc # "raised"

\* a session mul_master rejects, or a security type Falcon() rejects
BadSession == nr_parties # 3 \/ security_type \notin security_levels

\* C11: with a session that has not exactly 3 parties, or a security type
\* that is not a level, the construction or the call ends in a ValueError
\* and no product share is computed, no triple is taken from the store or
\* generated, and nothing is opened or returned.
C11_ConfigurationErrorsFirst ==
    /\ [](BadSession =>
            /\ pc \in {"construct", "call", "raised"}
            /\ pc = "raised" => exc = "ValueError"
            /\ n_product = 0
            /\ n_mask = 0
            /\ n_generate = 0
            /\ n_verify = 0
            /\ n_truncate = 0
            /\ opened = {}
            /\ result = NoTensor
            /\ eps = NoValue
            /\ delta = NoValue
            /\ residual = NoShares
            /\ ret = NoTensor)
    /\ [][BadSession => (store' = store /\ pc' = "raised")]_vars

\* C11 witness: multiply was rejected for the security type on a 3-party
\* session whose store holds a triple
C11_Witness ==
    /\ pc = "raised"
    /\ exc = "ValueError"
    /\ nr_parties = 3
    /\ security_type = "covert"
    /\ store # << >>
    /\ n_product = 0

(***************************************************************************)
(* Properties of private_compare, wrap and drelu.                          *)
(***************************************************************************)
\* C4: private_compare is correct for every input: for every width k, every
\* x and r of k bits, every random bit and every blinding factor m the
\* result reconstructs to 1 iff x >= r.
C4_PrivateCompareCorrect ==
    (nl.fn = "private_compare" /\ nl.pc = "returned") =>
        (nl.out = 1 <=> nl.x >= nl.r)

\* C22: in private_compare every c_i, computed over the integers from the
\* final w_j of the more significant bits, lies in 0..k+1, which is below
\* the prime, so the value in Z_p is that integer; at most one c_i is zero,
\* and a zero c_i is at the most significant bit where x and r differ, with
\* (1 - 2*beta)*(x_i - r_i) = -1; the opened d = m * prod(c) is zero iff
\* (beta = 0 and x < r) or (beta = 1 and x > r), and the result is beta
\* XOR (d # 0).
C22_ZeroAtDecidingBit ==
    (nl.fn = "private_compare" /\ nl.pc = "returned") =>
        LET bits     == 0 .. (nl.k - 1)
            xb       == bit_decomposition(nl.x, nl.k)
            beta_p   == bit_injection(nl.beta_2, PRIME_NUMBER)
            u_int(i) == (1 - 2 * nl.beta_2) * (Bit(nl.x, i) - Bit(nl.r, i))
            differ   == {i \in bits : Bit(nl.x, i) # Bit(nl.r, i)}
            c_int(i) == u_int(i) + 1 + Cardinality({j \in differ : j > i})
            zeros    == {i \in bits : pc_c(xb, nl.r, beta_p, i, nl.k) = 0}
            d_val    == pc_d(xb, nl.r, nl.k, nl.beta_2, nl.m)
        IN  /\ nl.k + 1 < PRIME_NUMBER
            /\ \A i \in bits :
                  /\ c_int(i) \in 0 .. (nl.k + 1)
                  /\ pc_c(xb, nl.r, beta_p, i, nl.k) = c_int(i)
            /\ Cardinality(zeros) <= 1
            /\ \A i \in zeros :
                  /\ i \in differ
                  /\ \A j \in differ : j <= i
                  /\ u_int(i) = 0 - 1
            /\ d_val = 0 <=> \/ nl.beta_2 = 0 /\ nl.x < nl.r
                             \/ nl.beta_2 = 1 /\ nl.x > nl.r
            /\ nl.out = Xor(nl.beta_2, IF d_val # 0 THEN 1 ELSE 0)

\* C22 witness: a comparison of the full width returned where x and r
\* differ in more than one bit, the blinding factor is not 1 and d opened
\* to zero
C22_Witness ==
    /\ nl.fn = "private_compare"
    /\ nl.pc = "returned"
    /\ nl.k = RingBits
    /\ Cardinality({i \in 0 .. (nl.k - 1) : Bit(nl.x, i) # Bit(nl.r, i)}) > 1
    /\ nl.m > 1
    /\ pc_d(bit_decomposition(nl.x, nl.k), nl.r, nl.k, nl.beta_2, nl.m) = 0

\* C23: for all unsigned values a, b, c of w bits, wrap2(a, b) is true iff
\* a + b >= 2^w, and wrap3(a, b, c) is floor((a + b + c) / 2^w) mod 2, which
\* is 0 when the three values overflow the ring twice.
C23_WrapCarries ==
    (nl.fn \in {"wrap2", "wrap3"} /\ nl.pc = "returned") =>
        LET two_w == 2 ^ nl.k
            total == nl.a[0] + nl.a[1] + nl.a[2]
        IN  /\ nl.out \in {0, 1}
            /\ nl.fn = "wrap2" => (nl.out = 1 <=> nl.a[0] + nl.a[1] >= two_w)
            /\ nl.fn = "wrap3" =>
                  /\ nl.out = (total \div two_w) % 2
                  /\ total >= 2 * two_w => nl.out = 0

\* C23 witness: wrap3 returned 0 for three values of the full width that
\* overflow twice, the third one alone causing the second overflow
C23_Witness ==
    /\ nl.fn = "wrap3"
    /\ nl.pc = "returned"
    /\ nl.k = RingBits
    /\ nl.a[0] + nl.a[1] + nl.a[2] >= 2 * 2 ^ nl.k
    /\ nl.a[2] < 2 ^ nl.k - 1
    /\ nl.out = 0

\* C17: _random_prime_group never returns zero: the value a call goes on
\* with is a nonzero element of Z_p; a round of the loop either discards
\* its sample and stays in the loop, or returns a sample that is not zero;
\* and the test of the (p-1)-th power passes for exactly the nonzero
\* elements, so the first nonzero sample is returned.
C17_SamplerNeverZero ==
    /\ [](nl.pc \in {"compute", "returned"} =>
            /\ nl.m \in 1 .. (PRIME_NUMBER - 1)
            /\ nl.n_samples >= 1)
    /\ [](\A s \in Field : (PowMod(s, PRIME_NUMBER - 1) = 1) <=> (s # 0))
    /\ [][nl.pc = "sample" =>
            /\ nl'.n_samples = nl.n_samples + 1
            /\ \/ nl'.pc = "sample" /\ nl'.m = nl.m
               \/ nl'.pc = "compute" /\ nl'.m # 0]_vars

\* C17 witness: a zero sample was discarded and the second sample returned
C17_Witness ==
    /\ nl.fn = "private_compare"
    /\ nl.pc = "compute"
    /\ nl.n_samples = 2
    /\ nl.m = PRIME_NUMBER - 1

\* the plain sum of the three components of the input of wrap / drelu
ASum == nl.a[0] + nl.a[1] + nl.a[2]

\* C5: wrap(a) reconstructs to 1 iff the sum of the three components of a
\* overflows the ring.  Stated on the sums with at most one carry, where
\* "overflows" and "the carry modulo 2" are the same statement.
C5_WrapCorrect ==
    (nl.fn = "wrap" /\ nl.pc = "returned" /\ ASum < 2 * RING_SIZE) =>
        (nl.out = 1 <=> ASum >= RING_SIZE)

\* C6: drelu(a) reconstructs to 1 iff a >= 0 under the signed reading of
\* the ring, for every sharing of a.
C6_DreluSignTest ==
    (nl.fn = "drelu" /\ nl.pc = "returned") =>
        (nl.out = 1 <=> Signed(ASum % RING_SIZE) >= 0)

\* C13: bounding_pow of a positive b returns alpha with
\* 2^alpha <= b < 2^(alpha + 1).
C13_BoundingPow ==
    (nl.fn = "bounding_pow" /\ nl.pc = "returned") =>
        LET b == (nl.a[0] + nl.a[1] + nl.a[2]) % bp_ring_size
        IN  /\ nl.out >= 0
            /\ 2 ^ nl.out <= b
            /\ b < 2 ^ (nl.out + 1)

\* C14: relu(a) reconstructs to a where a >= 0 under the signed reading
\* of the ring and to 0 where a < 0.
C14_ReluCorrect ==
    (nl.fn = "relu" /\ nl.pc = "returned") =>
        nl.out = IF Signed(ASum % RING_SIZE) >= 0 THEN ASum % RING_SIZE ELSE 0

\* C15: only designated, masked values are opened, so what a run of wrap
\* shows in the clear is what a run on any other secret input can show
\* too: for every other input there are random draws with the same view.
C15_OnlyDesignatedValuesOpened ==
    (nl.fn = "wrap" /\ nl.pc = "returned") =>
        \A a2 \in [Parties -> Ring] :
           \E x2 \in [Parties -> Ring], b2 \in 0 .. 1,
              m2 \in SmallSamples \ {0} :
                 wrap_view(a2, x2, nl.r1, nl.r2, b2, m2, RingBits) = nl.view

(***************************************************************************)
(* Properties of select_shares and division.                               *)
(***************************************************************************)
\* C7: when select_shares returns, d equals the selector b, the result is x
\* where b = 0 and y where b = 1, element by element, and the one value
\* opened is the mask b XOR c.
C7_SelectShares ==
    (sel.pc = "returned" /\ sel.b_len = MaxLen) =>
        /\ \A i \in Elems :
              /\ sel.d[i] = sel.b[i]
              /\ sel.mask[i] = Xor(sel.b[i], sel.c[i])
              /\ sel.z[i] = IF sel.b[i] = 0 THEN sel.x[i] ELSE sel.y[i]
        /\ sel.opened = {"mask"}

\* C7 witness: a call returned on tensors that differ, with a random bit
\* that flips the mask and a selector that takes y
C7_Witness ==
    /\ sel.pc = "returned"
    /\ sel.x[1] # sel.y[1]
    /\ sel.b[1] = 1
    /\ sel.c[1] = 1
    /\ sel.z[1] = sel.y[1]

\* a selector select_shares has to reject
InvalidSelector ==
    sel.ring_size # 2 \/ sel.shape = None \/ sel.b_len # MaxLen

\* C12: select_shares on a selector that is not of ring 2, has no shape or
\* has not the shape of x and y raises, and it does so before a random
\* share is generated and before a value is opened.
C12_SelectRejectsInvalidSelector ==
    (sel.pc \notin {"idle", "call"} /\ InvalidSelector) =>
        /\ sel.pc = "raised"
        /\ sel.n_random = 0
        /\ sel.opened = {}

\* C16: division(a, b) with a public positive b and a shaped a runs the
\* approximation and ends by returning a result.
C16_PublicDivisorAccepted ==
    (~div.is_private /\ div.shape # None /\ div.pc \in {"returned", "raised"}) =>
        div.pc = "returned"

\* C18: the result of division(a, b) for a positive private b is within
\* relative error 2^-10 of a / b.  Stated on the config of base 2 with the
\* most fractional bits, on the fixed-point integers, and with two units of
\* the last place allowed for the rounding of the truncations:
\* |result * b - a * scale| * 2^10 <= a * scale + 2 * 2^10 * b.
C18_DivisionAccurate ==
    (div.pc = "returned" /\ config = [base |-> 2, precision |-> 12]) =>
        LET scale == config.base ^ config.precision
            diff  == div.result * div.b - div.a * scale
            err   == IF diff < 0 THEN 0 - diff ELSE diff
        IN  err * 1024 <= div.a * scale + 2 * 1024 * div.b

\* C8: after division ends, by return or by an exception, every share of a
\* and of b has the config of the session again.
C8_ConfigRestoredOnEveryExit ==
    div.pc \in {"returned", "raised"} =>
        \A i \in Parties : div.a_cfg[i] = config /\ div.b_cfg[i] = config

====
